---- MODULE Spec2Model ----
(***************************************************************************)
(* Reflex: a reaction-time game for a small board with a joystick, an OLED *)
(* display, a light sensor, an accelerometer, an EEPROM and a speaker.     *)
(* The model follows src/src/main.c, lines 1-766 (the complete program the *)
(* file starts with).  The program is single threaded; every action below  *)
(* is one step of that thread, or one change of the physical inputs.       *)
(***************************************************************************)
EXTENDS Integers, Naturals, Sequences, FiniteSets, TLC

(***************************************************************************)
(* Program constants                                                       *)
(***************************************************************************)
MENU_ITEM_COUNT == 5

MENU_START_GAME == 0

MENU_RESET_SCORE == 1

SHOW_HIGH_SCORE == 2

MENU_CREDITS == 3

MENU_EXIT == 4

\* number of rounds of a game session: while (round < 5)
ROUNDS == 5

\* the value written by both high-score resets: set_high_score(9999)
RESET_SCORE == 9999

\* EEPROM offset of the stored score: eeprom_write(buf, 8, 2)
SCORE_ADDR_WRITE == 8

\* EEPROM offset the score is read from: eeprom_read(readBuf, 8, 2)
SCORE_ADDR_READ == 8

\* adjust_theme: if (reading < 125)
LIGHT_THRESHOLD == 125

\* is_board_tilted: > 30, < -30
TILT_THRESHOLD == 30

\* init_tilt_calibration: tilt.zOffset = 64 - tilt.z
Z_LEVEL == 64

\* char reactionTimeMsString[5]
RESULT_BUF_SIZE == 5

\* char highScoreMsString[8]
SCORE_BUF_SIZE == 8

\* (rand() % 3000) + 500
RAND_SPAN == 3000

RAND_BASE == 500

\* delay32Ms(0, 600) after a round's result
RESULT_PAUSE_MS == 600

\* delay32Ms(0, 1000) on the summary screen
SUMMARY_PAUSE_MS == 1000

\* play_note(notes[2], 250): the cue tone of the waiting screen
CUE_MS == 250

\* play_note(notes[0], 200): the tone of a theme change
THEME_TONE_MS == 200

(***************************************************************************)
(* Machine arithmetic                                                      *)
(***************************************************************************)
ToUint8(v) == v % 256

ToUint16(v) == v % 65536

(***************************************************************************)
(* 32-bit and larger values are kept as <<high, low>>, the value being     *)
(* high * 65536 + low with low in 0..65535.  A uint32_t has high < 65536.  *)
(***************************************************************************)
Wide(n) == <<n \div 65536, n % 65536>>

WAdd(a, b) ==
    <<a[1] + b[1] + ((a[2] + b[2]) \div 65536), (a[2] + b[2]) % 65536>>

WLess(a, b) == (a[1] < b[1]) \/ (a[1] = b[1] /\ a[2] < b[2])

\* division by a small positive d, by long division on the two halves
WDiv(a, d) == <<a[1] \div d, (((a[1] % d) * 65536) + a[2]) \div d>>

\* conversion to uint32_t: the value modulo 2^32
ToUint32(a) == <<a[1] % 65536, a[2]>>

\* conversion of a 32-bit value to uint16_t: the value modulo 2^16
WToUint16(a) == a[2]

WMin(a, b) == IF WLess(b, a) THEN b ELSE a

\* conversion to int8_t (two's complement wrap of the ARM build)
ToInt8(v) == ((v + 128) % 256) - 128

\* number of decimal digits printed by "%u" for an unsigned value
RECURSIVE Digits(_)
Digits(v) == IF v < 10 THEN 1 ELSE 1 + Digits(v \div 10)

\* the same for a uint32_t: from 2^31 on the number has ten digits
WDigits(a) == IF a[1] < 32768 THEN Digits((a[1] * 65536) + a[2]) ELSE 10

\* 2^32, above every uint32_t: the minimum of no samples
NoSample == <<65536, 0>>

(***************************************************************************)
(* Joystick: the bits joystick_read() returns, as the set of pressed       *)
(* buttons.  The program tests CENTER, UP and DOWN only.                   *)
(***************************************************************************)
Buttons == {"CENTER", "UP", "DOWN"}

\* a previous state that starts with every bit clear
ALL_PRESSED_none == {}

\* uint8_t previous_joy = 0xFF: every bit set
ALL_PRESSED == Buttons

JoyStates == SUBSET Buttons

(***************************************************************************)
(* Colours of the OLED driver; the statics fontColor and backgroundColor   *)
(* are zero-initialised, and 0 is OLED_COLOR_BLACK.                        *)
(***************************************************************************)
OLED_COLOR_BLACK == 0

OLED_COLOR_WHITE == 1

(***************************************************************************)
(* Score store: two EEPROM bytes, big-endian                               *)
(***************************************************************************)
EepromAddrs == {0, 1, 8, 9}

\* eeprom_write(buf, offset, len): bytes buf[0..len-1] go to offset..
eeprom_write(e, buf, offset, len) ==
    [a \in DOMAIN e |->
        IF a >= offset /\ a < offset + len THEN buf[(a - offset) + 1] ELSE e[a]]

\* eeprom_read(buf, offset, len): the bytes at offset..
eeprom_read(e, offset, len) == [i \in 1..len |-> e[offset + (i - 1)]]

\* set_high_score with a byte swapped: little-endian encoding
set_high_score_swapped(e, value) ==
    eeprom_write(e, <<ToUint16(value) % 256, ToUint16(value) \div 256>>,
                 SCORE_ADDR_WRITE, 2)

\* set_high_score that stores the low byte only
set_high_score_lowbyte(e, value) ==
    eeprom_write(e, <<0, ToUint16(value) % 256>>, SCORE_ADDR_WRITE, 2)

\* value: the uint16_t parameter
set_high_score(e, value) ==
    eeprom_write(e, <<ToUint16(value) \div 256, ToUint16(value) % 256>>,
                 SCORE_ADDR_WRITE, 2)

\* a read at the offset the comment of set_high_score names, 0
read_high_score_offset0(e) ==
    LET readBuf == eeprom_read(e, 0, 2)
    IN  ToUint16(readBuf[1] * 256 + readBuf[2])

read_high_score(e) ==
    LET readBuf == eeprom_read(e, SCORE_ADDR_READ, 2)
    IN  ToUint16(readBuf[1] * 256 + readBuf[2])

(***************************************************************************)
(* play_note: the microseconds of delay a call executes.  With a non-zero  *)
(* period the loop runs while t < durationMs * 1000, delays note / 4 twice *)
(* per pass and adds note to t; with period 0 it delays durationMs.        *)
(***************************************************************************)
PlayNotePasses(note, durationMs) ==
    ((durationMs * 1000) + (note - 1)) \div note

play_note(note, durationMs) ==
    IF note > 0
    THEN PlayNotePasses(note, durationMs) * (2 * (note \div 4))
    ELSE durationMs * 1000

\* static uint32_t notes[]: the periods used by the modelled steps
NoteA == 2272

NoteC == 3816

NoteE == 3030

NoteHighA == 1136

\* milliseconds a call of play_note keeps the caller busy
NoteMs(note, durationMs) == play_note(note, durationMs) \div 1000

\* static uint32_t notes[]: the whole table; notes[i] of the source is
\* notes[i + 1] here
notes ==
    <<2272, 2024, 3816, 3401, 3215, 3030, 2865, 2703, 2551, 2146, 1136, 1012,
      1912, 1703, 1517, 1432, 1275>>

\* writes to the speaker pin by one call: P1_2_HIGH and P1_2_LOW per pass
PlayNoteToggles(note, durationMs) ==
    IF note > 0 THEN 2 * PlayNotePasses(note, durationMs) ELSE 0

\* one call of play_note, as the caller and the speaker see it
Tone(by, note, durationMs) ==
    [by |-> by, note |-> note, durationMs |-> durationMs,
     delayUs |-> play_note(note, durationMs),
     toggles |-> PlayNoteToggles(note, durationMs)]

\* play_star_wars_theme: the calls in order
play_star_wars_theme ==
    LET n(i, ms) == Tone("play_star_wars_theme", notes[i + 1], ms)
    IN  <<n(8, 500), n(8, 500), n(8, 500),
          n(2, 350), n(16, 150), n(8, 500), n(6, 350), n(4, 150), n(3, 150),
          n(2, 350), n(16, 150), n(8, 1000),
          n(6, 350), n(4, 150), n(3, 150), n(2, 350), n(16, 150),
          n(8, 1000)>>

(***************************************************************************)
(* adjust_theme: the palette chosen for a light reading, and the result    *)
(***************************************************************************)
\* a comparison that takes the threshold itself for dark
ThemeFont_inclusive(reading) ==
    IF reading <= LIGHT_THRESHOLD THEN OLED_COLOR_WHITE ELSE OLED_COLOR_BLACK

ThemeFont(reading) ==
    IF reading < LIGHT_THRESHOLD THEN OLED_COLOR_WHITE ELSE OLED_COLOR_BLACK

ThemeBackground(reading) ==
    IF reading < LIGHT_THRESHOLD THEN OLED_COLOR_BLACK ELSE OLED_COLOR_WHITE

\* if (fontColor == prev_fontColor) return 0; ... return 1;
adjust_theme(reading, prev_fontColor) ==
    IF ThemeFont(reading) = prev_fontColor THEN 0 ELSE 1

\* play_note(notes[0], 200) before return 1: the calls adjust_theme makes
adjust_theme_tones(reading, prev_fontColor) ==
    IF adjust_theme(reading, prev_fontColor) = 1
    THEN <<Tone("adjust_theme", NoteA, THEME_TONE_MS)>>
    ELSE <<>>

(***************************************************************************)
(* Tilt: accelerometer readings are <<x, y, z>>, each an int8_t            *)
(***************************************************************************)
\* acc_read; xOffset = -x; yOffset = -y; zOffset = 64 - z
init_tilt_calibration(r) ==
    [xOffset |-> ToInt8(0 - r[1]), yOffset |-> ToInt8(0 - r[2]),
     zOffset |-> ToInt8(Z_LEVEL - r[3]),
     x |-> r[1], y |-> r[2], z |-> r[3]]

\* a poll that takes its X reading for the new neutral position
TiltSample_drift(t, r) ==
    [t EXCEPT !.x = ToInt8(r[1] + t.xOffset),
              !.y = ToInt8(r[2] + t.yOffset),
              !.z = ToInt8(r[3] + t.zOffset),
              !.xOffset = ToInt8(0 - r[1])]

\* acc_read; tilt.x += tilt.xOffset; ... : the struct after the call
TiltSample(t, r) ==
    [t EXCEPT !.x = ToInt8(r[1] + t.xOffset),
              !.y = ToInt8(r[2] + t.yOffset),
              !.z = ToInt8(r[3] + t.zOffset)]

\* a check that looks at the X axis only
is_board_tilted_xonly(t) ==
    IF (t.x > TILT_THRESHOLD) \/ (t.x < 0 - TILT_THRESHOLD) THEN 1 ELSE 0

\* a check that looks at the Z axis as well
is_board_tilted_zaxis(t) ==
    IF (t.x > TILT_THRESHOLD) \/ (t.x < 0 - TILT_THRESHOLD)
       \/ (t.y > TILT_THRESHOLD) \/ (t.y < 0 - TILT_THRESHOLD)
       \/ (t.z > TILT_THRESHOLD) \/ (t.z < 0 - TILT_THRESHOLD)
    THEN 1 ELSE 0

\* the verdict, for the struct after the call
is_board_tilted(t) ==
    IF (t.x > TILT_THRESHOLD) \/ (t.x < 0 - TILT_THRESHOLD)
       \/ (t.y > TILT_THRESHOLD) \/ (t.y < 0 - TILT_THRESHOLD)
    THEN 1 ELSE 0

(***************************************************************************)
(* Inputs of the environment                                               *)
(***************************************************************************)
\* the board at rest, flat on the table
LevelReading == <<0, 0, 64>>

\* no accelerometer reading has been taken
NoReading == <<>>

\* accelerometer readings polled in the menu: level, and tilted on x
MenuAccReadings == {LevelReading, <<31, 0, 64>>}

\* light_read() values, both sides of the threshold
LightReadings == {124, 125}

\* rand() values: both ends of each residue range of rand() % 3000
RandValues == {0, 2999, 3000, 5999}

\* numbers of consecutive 1 ms polls of wait_for_joystick_center_click that
\* find the button released: a quarter of a second, and 2^32 - 250 polls
PollCounts == {<<0, 250>>, <<65535, 65286>>}

\* high scores found in the EEPROM when a session starts
PriorScores == {0, 250, 300, RESET_SCORE}

\* how many runs of released polls one blocking wait is followed through
MaxWaitSteps == 1

\* how many polls of one held Down press are counted
MaxHoldPolls == 3

(***************************************************************************)
(* State                                                                   *)
(***************************************************************************)
VARIABLES
    pc,              \* position of the program
    joy,             \* the joystick: the buttons pressed now
    eeprom,          \* EEPROM bytes
    fontColor,       \* static oled_color_t fontColor
    backgroundColor, \* static oled_color_t backgroundColor
    selectedIndex,   \* static int selectedIndex
    previous_joy,    \* handle_menu: uint8_t previous_joy
    selection,       \* show_main_menu: MenuItem selection
    tilt,            \* static TiltState tilt
    round,           \* start_game: uint8_t round
    totalTime,       \* start_game: uint32_t totalTime
    highScoreMs,     \* start_game: uint16_t highScoreMs
    reactionTimeMs,  \* start_game: uint32_t reactionTimeMs
    randomDelay,     \* start_game: uint32_t randomDelay
    TC,              \* LPC_TMR32B1->TC, the millisecond counter
    TCR,             \* LPC_TMR32B1->TCR: 0 stopped, 2 reset, 1 counting
    circle,          \* the circle on the display: none, outline, filled
    ledPos,          \* LED bar position, -1 when cleared
    banner,          \* "NEW RECORD!" was drawn in the last result
    strBytes,        \* bytes written into reactionTimeMsString, with the NUL
    scoreShown,      \* number printed by the last "High score" text
    scoreBytes,      \* bytes written into highScoreMsString, with the NUL
    avgShown,        \* number printed in "Avg: %u ms"
    bestShown,       \* number printed in "Best: %u ms"
    measured,        \* history: calls of measure_reaction_time that returned
    sumElapsed,      \* history: sum of the values they returned, unbounded
    minElapsed,      \* history: the least value they returned
    priorScore,      \* history: stored score when the session started
    sinceArm,        \* history: milliseconds waited since the timer was armed
    heldSinceArm,    \* history: Confirm pressed at arming and ever since
    waits,           \* released-poll runs followed in the current wait
    phases,          \* history: Summary screens drawn in this session
    holdFrom,        \* history: selectedIndex before Down was pressed, or -1
    holdPolls,       \* history: polls that have read this press unchanged
    written,         \* history: the last value given to set_high_score, or -1
    readBack,        \* what read_high_score returned since that call, or -1
    lightRead,       \* light_read() of the last step's adjust_theme, or -1
    themeResult,     \* what adjust_theme returned in the last step, or -1
    accRead,         \* acc_read() of the last step, or NoReading
    calRead,         \* history: the reading init_tilt_calibration took
    calibrations,    \* history: the calls of init_tilt_calibration so far
    tilted,          \* what is_board_tilted returned in the last step, or -1
    sound            \* the play_note calls of the last step, in order

hwVars == <<joy, eeprom, TC, TCR, circle, ledPos>>

themeVars == <<fontColor, backgroundColor>>

menuVars == <<selectedIndex, previous_joy, selection, tilt, scoreShown,
              scoreBytes>>

gameVars == <<round, totalTime, highScoreMs, reactionTimeMs, randomDelay,
              banner, strBytes, avgShown, bestShown>>

histVars == <<measured, sumElapsed, minElapsed, priorScore, sinceArm,
             heldSinceArm, waits, phases>>

holdVars == <<holdFrom, holdPolls>>

storeVars == <<written, readBack>>

callVars == <<lightRead, themeResult, accRead, calRead, calibrations, tilted,
              sound>>

vars == <<pc, hwVars, themeVars, menuVars, gameVars, histVars, holdVars,
          storeVars, callVars>>

\* the step does not call adjust_theme
NoThemeCall == lightRead' = -1 /\ themeResult' = -1

\* the step calls adjust_theme, which reads the light sensor
ThemeCall(reading) ==
    /\ lightRead' = reading
    /\ themeResult' = adjust_theme(reading, fontColor)

\* the step reads no accelerometer
NoTiltCall ==
    /\ accRead' = NoReading
    /\ tilted' = -1
    /\ calRead' = calRead
    /\ calibrations' = calibrations

\* the step calls none of adjust_theme, is_board_tilted, play_note
Quiet == NoThemeCall /\ NoTiltCall /\ sound' = <<>>

\* the counter counts only while TCR is 1
Advance(tc, tcr, ms) == IF tcr = 1 THEN ToUint32(WAdd(tc, ms)) ELSE tc

\* positions at which the program is inside wait_for_joystick_center_click
WaitPcs == {"Measuring", "RoundConfirm", "SummaryConfirm", "WelcomeConfirm",
            "ScoreConfirm"}

\* the waits of a game session: the counter is followed there, and not in
\* the menu, where it is never read
GameWaitPcs == {"Measuring", "RoundConfirm", "SummaryConfirm"}

(***************************************************************************)
(* The joystick is moved by the user at any time                           *)
(***************************************************************************)
JoystickMove(states) ==
    /\ \E j \in states :
          /\ j # joy
          /\ joy' = j
          /\ heldSinceArm' = (heldSinceArm /\ "CENTER" \in j)
    /\ UNCHANGED callVars
    /\ UNCHANGED <<holdVars, storeVars, pc, eeprom, TC, TCR, circle, ledPos, themeVars, menuVars,
                   gameVars, measured, sumElapsed, minElapsed, priorScore,
                   sinceArm, waits, phases>>

(***************************************************************************)
(* wait_for_joystick_center_click                                          *)
(*   while ((joystick_read() & JOYSTICK_CENTER) == 0) delay32Ms(0, 1);     *)
(* n passes of the loop that read the button released.                     *)
(***************************************************************************)
wait_for_joystick_center_click_released(n) ==
    /\ pc \in WaitPcs
    /\ "CENTER" \notin joy
    /\ waits < MaxWaitSteps
    /\ waits' = waits + 1
    /\ TC' = IF pc \in GameWaitPcs THEN Advance(TC, TCR, n) ELSE TC
    /\ sinceArm' = IF pc = "Measuring" THEN WAdd(sinceArm, n) ELSE sinceArm
    /\ Quiet
    /\ UNCHANGED <<holdVars, storeVars, pc, joy, eeprom, TCR, circle, ledPos, themeVars, menuVars,
                   gameVars, measured, sumElapsed, minElapsed, priorScore,
                   heldSinceArm, phases>>

\* a wait that any button ends
wait_for_joystick_center_click_pressed_any == joy # {}

\* a wait that ends only with Up pressed together with Confirm
wait_for_joystick_center_click_pressed_with_up ==
    ("CENTER" \in joy) /\ ("UP" \in joy)

\* the loop condition read with the button pressed: the wait is over
wait_for_joystick_center_click_pressed == "CENTER" \in joy

(***************************************************************************)
(* start_game                                                              *)
(***************************************************************************)
\* round = 0; totalTime = 0; highScoreMs = read_high_score(); while (round < 5)
start_game_enter ==
    /\ pc = "start_game"
    /\ round' = 0
    /\ totalTime' = Wide(0)
    /\ highScoreMs' = read_high_score(eeprom)
    /\ measured' = 0
    /\ sumElapsed' = Wide(0)
    /\ minElapsed' = NoSample
    /\ priorScore' = read_high_score(eeprom)
    /\ phases' = 0
    /\ pc' = "Wait"
    /\ readBack' = read_high_score(eeprom)
    /\ Quiet
    /\ UNCHANGED <<holdVars, written, hwVars, themeVars, menuVars, reactionTimeMs, randomDelay,
                   banner, strBytes, avgShown, bestShown, sinceArm,
                   heldSinceArm, waits>>

\* LED bar, adjust_theme, outlined circle, cue tone, random delay
start_game_wait(reading, r) ==
    /\ pc = "Wait"
    /\ round < ROUNDS
    /\ ledPos' = round
    /\ fontColor' = ThemeFont(reading)
    /\ backgroundColor' = ThemeBackground(reading)
    /\ circle' = "outline"
    /\ randomDelay' = (r % RAND_SPAN) + RAND_BASE
    /\ TC' = Advance(TC, TCR,
                     Wide((IF adjust_theme(reading, fontColor) = 1
                           THEN NoteMs(NoteA, THEME_TONE_MS) ELSE 0)
                          + NoteMs(NoteC, CUE_MS) + randomDelay'))
    /\ pc' = "Stimulus"
    /\ ThemeCall(reading)
    /\ NoTiltCall
    /\ sound' = adjust_theme_tones(reading, fontColor)
                   \o <<Tone("start_game", NoteC, CUE_MS)>>
    /\ UNCHANGED <<holdVars, storeVars, joy, eeprom, TCR, menuVars, round, totalTime, highScoreMs,
                   reactionTimeMs, banner, strBytes, avgShown, bestShown,
                   histVars>>

\* fill_circle(...): the visual trigger
start_game_stimulus ==
    /\ pc = "Stimulus"
    /\ circle' = "filled"
    /\ pc' = "Arm"
    /\ Quiet
    /\ UNCHANGED <<holdVars, storeVars, joy, eeprom, TC, TCR, ledPos, themeVars, menuVars,
                   gameVars, histVars>>

(***************************************************************************)
(* measure_reaction_time                                                   *)
(***************************************************************************)
\* a timer that is started without the reset
ArmedCounter_noreset(tc) == tc

\* TCR = 0x02 resets the counter, TCR = 0x01 starts it
ArmedCounter(tc) == Wide(0)

measure_reaction_time_arm ==
    /\ pc = "Arm"
    /\ TC' = ArmedCounter(TC)
    /\ TCR' = 1
    /\ sinceArm' = Wide(0)
    /\ heldSinceArm' = ("CENTER" \in joy)
    /\ waits' = 0
    /\ pc' = "Measuring"
    /\ Quiet
    /\ UNCHANGED <<holdVars, storeVars, joy, eeprom, circle, ledPos, themeVars, menuVars, gameVars,
                   measured, sumElapsed, minElapsed, priorScore, phases>>

\* reactionTimeMs = LPC_TMR32B1->TC; return reactionTimeMs;
measure_reaction_time_return ==
    /\ pc = "Measuring"
    /\ wait_for_joystick_center_click_pressed
    /\ reactionTimeMs' = TC
    /\ measured' = measured + 1
    /\ sumElapsed' = WAdd(sumElapsed, TC)
    /\ minElapsed' = WMin(minElapsed, TC)
    /\ pc' = "Result"
    /\ Quiet
    /\ UNCHANGED <<holdVars, storeVars, hwVars, themeVars, menuVars, round, totalTime, highScoreMs,
                   randomDelay, banner, strBytes, avgShown, bestShown,
                   priorScore, sinceArm, heldSinceArm, waits, phases>>

(***************************************************************************)
(* start_game: the result of a round                                       *)
(***************************************************************************)
\* a rule that forgets the comparison and knows the empty score only
IsNewRecord_zero(elapsed, highScore) == highScore = 0

\* a comparison that also takes a tie for a record
IsNewRecord_tie(elapsed, highScore) ==
    (~ WLess(Wide(highScore), elapsed)) \/ (highScore = 0)

\* a comparison turned round: a slower round is the record
IsNewRecord_slower(elapsed, highScore) ==
    WLess(Wide(highScore), elapsed) \/ (highScore = 0)

\* (reactionTimeMs < highScoreMs) || (highScoreMs == (uint16_t)0)
\* the uint16_t is converted to 32 bits for the comparison
IsNewRecord(elapsed, highScore) ==
    WLess(elapsed, Wide(highScore)) \/ (highScore = 0)

\* totalTime += reactionTimeMs, in uint32_t
AddTime(total, elapsed) == ToUint32(WAdd(total, elapsed))

\* sprintf "%u", strcat " ms": digits, three characters and the terminator
ResultTextBytes(elapsed) == WDigits(elapsed) + 3 + 1

start_game_result ==
    /\ pc = "Result"
    /\ totalTime' = AddTime(totalTime, reactionTimeMs)
    /\ strBytes' = ResultTextBytes(reactionTimeMs)
    /\ banner' = IsNewRecord(reactionTimeMs, highScoreMs)
    /\ IF IsNewRecord(reactionTimeMs, highScoreMs)
       THEN /\ eeprom' = set_high_score(eeprom, WToUint16(reactionTimeMs))
            /\ written' = WToUint16(reactionTimeMs)
            /\ readBack' = -1
            /\ highScoreMs' = WToUint16(reactionTimeMs)
            /\ TC' = Advance(TC, TCR,
                             Wide(NoteMs(NoteA, 100) + NoteMs(NoteE, 200)
                                  + NoteMs(NoteHighA, 400) + RESULT_PAUSE_MS))
       ELSE /\ UNCHANGED <<eeprom, highScoreMs, storeVars>>
            /\ TC' = Advance(TC, TCR, Wide(RESULT_PAUSE_MS))
    /\ round' = ToUint8(round + 1)
    /\ waits' = 0
    /\ pc' = "RoundConfirm"
    /\ NoThemeCall
    /\ NoTiltCall
    /\ sound' = IF IsNewRecord(reactionTimeMs, highScoreMs)
                THEN <<Tone("start_game", NoteA, 100),
                       Tone("start_game", NoteE, 200),
                       Tone("start_game", NoteHighA, 400)>>
                ELSE <<>>
    /\ UNCHANGED <<holdVars, joy, TCR, circle, ledPos, themeVars, menuVars,
                   reactionTimeMs, randomDelay, avgShown, bestShown, measured,
                   sumElapsed, minElapsed, priorScore, sinceArm, heldSinceArm,
                   phases>>

\* a loop that stops one round early
MoreRounds_short(r) == r < ROUNDS - 1

\* while (round < 5)
MoreRounds(r) == r < ROUNDS

\* wait_for_joystick_center_click() returns; back to the loop condition
start_game_confirm ==
    /\ pc = "RoundConfirm"
    /\ wait_for_joystick_center_click_pressed
    /\ pc' = IF MoreRounds(round) THEN "Wait" ELSE "Summary"
    /\ Quiet
    /\ UNCHANGED <<holdVars, storeVars, hwVars, themeVars, menuVars, gameVars, histVars>>

\* "Game Complete!", "Avg: %u ms", "Best: %u ms", clear_led_bar, delay 1000
start_game_summary ==
    /\ pc = "Summary"
    /\ avgShown' = WDiv(totalTime, 5)
    /\ bestShown' = read_high_score(eeprom)
    /\ ledPos' = -1
    /\ TC' = Advance(TC, TCR, Wide(SUMMARY_PAUSE_MS))
    /\ phases' = phases + 1
    /\ waits' = 0
    /\ pc' = "SummaryConfirm"
    /\ readBack' = read_high_score(eeprom)
    /\ Quiet
    /\ UNCHANGED <<holdVars, written, joy, eeprom, TCR, circle, themeVars, menuVars, round,
                   totalTime, highScoreMs, reactionTimeMs, randomDelay, banner,
                   strBytes, measured, sumElapsed, minElapsed, priorScore,
                   sinceArm, heldSinceArm>>

\* a session that returns with the selection moved to the next item
start_game_return_next ==
    /\ pc = "SummaryConfirm"
    /\ wait_for_joystick_center_click_pressed
    /\ pc' = "show_main_menu"
    /\ selectedIndex' = MENU_RESET_SCORE
    /\ Quiet
    /\ UNCHANGED <<holdVars, storeVars, hwVars, themeVars, previous_joy,
                   selection, tilt, scoreShown, scoreBytes, gameVars, histVars>>

\* the last wait_for_joystick_center_click() returns, and so does start_game
start_game_return ==
    /\ pc = "SummaryConfirm"
    /\ wait_for_joystick_center_click_pressed
    /\ pc' = "show_main_menu"
    /\ Quiet
    /\ UNCHANGED <<holdVars, storeVars, hwVars, themeVars, menuVars, gameVars, histVars>>

(***************************************************************************)
(* A game session on its own: the state in which show_main_menu calls      *)
(* start_game, for each stored score and palette.                          *)
(***************************************************************************)
GameJoy == {{}, {"CENTER"}}

\* no game session has run: locals, timer, display and history at rest
InitLocals ==
    /\ round = 0
    /\ totalTime = Wide(0)
    /\ highScoreMs = 0
    /\ reactionTimeMs = Wide(0)
    /\ randomDelay = 0
    /\ TC = Wide(0)
    /\ TCR = 0
    /\ circle = "none"
    /\ ledPos = -1
    /\ banner = FALSE
    /\ strBytes = 0
    /\ avgShown = Wide(0)
    /\ bestShown = 0
    /\ measured = 0
    /\ sumElapsed = Wide(0)
    /\ minElapsed = NoSample
    /\ priorScore = 0
    /\ sinceArm = Wide(0)
    /\ heldSinceArm = FALSE
    /\ waits = 0
    /\ phases = 0
    /\ holdFrom = -1
    /\ holdPolls = 0
    /\ written = -1
    /\ readBack = -1
    /\ lightRead = -1
    /\ themeResult = -1
    /\ accRead = NoReading
    /\ tilted = -1
    /\ sound = <<>>

StoredScore(v) ==
    set_high_score([a \in EepromAddrs |-> 255], v)

InitGame ==
    /\ pc = "start_game"
    /\ joy \in GameJoy
    /\ eeprom \in {StoredScore(v) : v \in PriorScores}
    /\ \E reading \in LightReadings :
          /\ fontColor = ThemeFont(reading)
          /\ backgroundColor = ThemeBackground(reading)
    /\ selectedIndex = MENU_START_GAME
    /\ previous_joy = {}
    /\ selection = MENU_START_GAME
    /\ tilt = init_tilt_calibration(LevelReading)
    /\ scoreShown = 0
    /\ scoreBytes = 0
    /\ calRead = LevelReading
    /\ calibrations = 1
    /\ InitLocals

NextGame ==
    \/ JoystickMove(GameJoy)
    \/ \E n \in PollCounts : wait_for_joystick_center_click_released(n)
    \/ start_game_enter
    \/ \E reading \in LightReadings, r \in RandValues :
          start_game_wait(reading, r)
    \/ start_game_stimulus
    \/ measure_reaction_time_arm
    \/ measure_reaction_time_return
    \/ start_game_result
    \/ start_game_confirm
    \/ start_game_summary
    \/ start_game_return

SpecGame == InitGame /\ [][NextGame]_vars

\* The program runs on: every step that waits for nothing but the processor
\* or a timed delay is taken, and a wait for Confirm that finds the button
\* pressed again and again reads it pressed at one of its 1 ms polls.  The
\* user is free: JoystickMove has no fairness.
FairGame ==
    /\ WF_vars(start_game_enter)
    /\ WF_vars(\E reading \in LightReadings, r \in RandValues :
                  start_game_wait(reading, r))
    /\ WF_vars(start_game_stimulus)
    /\ WF_vars(measure_reaction_time_arm)
    /\ WF_vars(start_game_result)
    /\ WF_vars(start_game_summary)
    /\ SF_vars(measure_reaction_time_return)
    /\ SF_vars(start_game_confirm)
    /\ SF_vars(start_game_return)

SpecGameLive == InitGame /\ [][NextGame]_vars /\ FairGame

(***************************************************************************)
(* A game session whose rounds take several different times: 100, 250 and  *)
(* 400 ms, and 65536 ms, one more than a uint16_t holds.                   *)
(***************************************************************************)
RecordPollCounts == {<<0, 100>>, <<0, 250>>, <<0, 400>>, <<1, 0>>}

\* one rand() value: the delay before the stimulus plays no part here
RecordRandValues == {2999}

NextRecords ==
    \/ JoystickMove(GameJoy)
    \/ \E n \in RecordPollCounts : wait_for_joystick_center_click_released(n)
    \/ start_game_enter
    \/ \E reading \in LightReadings, r \in RecordRandValues :
          start_game_wait(reading, r)
    \/ start_game_stimulus
    \/ measure_reaction_time_arm
    \/ measure_reaction_time_return
    \/ start_game_result
    \/ start_game_confirm
    \/ start_game_summary
    \/ start_game_return

SpecRecords == InitGame /\ [][NextRecords]_vars

(***************************************************************************)
(* handle_menu                                                             *)
(***************************************************************************)
\* draw_menu() clears the screen of the action that has returned, whose
\* locals are gone; the history of that action is dropped with them
ForgetSession ==
    /\ circle' = "none"
    /\ ledPos' = ledPos
    /\ banner' = FALSE
    /\ avgShown' = Wide(0)
    /\ bestShown' = 0
    /\ scoreShown' = 0
    /\ scoreBytes' = 0
    /\ round' = 0
    /\ totalTime' = Wide(0)
    /\ highScoreMs' = 0
    /\ reactionTimeMs' = Wide(0)
    /\ randomDelay' = 0
    /\ strBytes' = 0
    /\ measured' = 0
    /\ sumElapsed' = Wide(0)
    /\ minElapsed' = NoSample
    /\ priorScore' = 0
    /\ sinceArm' = Wide(0)
    /\ heldSinceArm' = FALSE
    /\ waits' = 0
    /\ phases' = 0

\* an entry that puts the selection back on the first item
show_main_menu_enter_home ==
    /\ pc = "show_main_menu"
    /\ previous_joy' = ALL_PRESSED
    /\ selectedIndex' = 0
    /\ holdFrom' = -1
    /\ holdPolls' = 0
    /\ pc' = "handle_menu"
    /\ ForgetSession
    /\ Quiet
    /\ UNCHANGED <<storeVars, joy, eeprom, TC, TCR, themeVars, selection, tilt>>

\* draw_menu(); handle_menu(): uint8_t previous_joy = 0xFF
show_main_menu_enter ==
    /\ pc = "show_main_menu"
    /\ previous_joy' = ALL_PRESSED
    /\ holdFrom' = -1
    /\ holdPolls' = 0
    /\ pc' = "handle_menu"
    /\ ForgetSession
    /\ Quiet
    /\ UNCHANGED <<storeVars, joy, eeprom, TC, TCR, themeVars, selectedIndex,
                   selection, tilt>>

\* a detector that looks at the level only
Edge_level(button, now, before) == button \in now

\* a button is down now and was up at the previous poll
Edge(button, now, before) == (button \in now) /\ (button \notin before)

\* an index that runs off the end of the menu
MenuDown_nowrap(index) == index + 1

\* selectedIndex = (selectedIndex + 1) % MENU_ITEM_COUNT
MenuDown(index) == (index + 1) % MENU_ITEM_COUNT

\* selectedIndex = (selectedIndex - 1 + MENU_ITEM_COUNT) % MENU_ITEM_COUNT
MenuUp(index) == ((index - 1) + MENU_ITEM_COUNT) % MENU_ITEM_COUNT

\* a chain whose Confirm test lost its negation
MenuEvent_held(now, before) ==
    IF Edge("DOWN", now, before) THEN "down"
    ELSE IF Edge("UP", now, before) THEN "up"
    ELSE IF ("CENTER" \in now) /\ ("CENTER" \in before) THEN "select"
    ELSE "none"

\* a chain that tests Up before Down
MenuEvent_upfirst(now, before) ==
    IF Edge("UP", now, before) THEN "up"
    ELSE IF Edge("DOWN", now, before) THEN "down"
    ELSE IF Edge("CENTER", now, before) THEN "select"
    ELSE "none"

\* what one pass of the loop does with the joystick: "down", "up",
\* "select" or "none", by the if / else if chain
MenuEvent(now, before) ==
    IF Edge("DOWN", now, before) THEN "down"
    ELSE IF Edge("UP", now, before) THEN "up"
    ELSE IF Edge("CENTER", now, before) THEN "select"
    ELSE "none"

\* a tilt check that has lost its reset
TiltCheck_skip(e, verdict) == e

\* a pass that resets the score whatever the verdict
TiltCheck_always(e, verdict) == set_high_score(e, RESET_SCORE)

\* if (is_board_tilted()) { set_high_score(9999); ... }: the EEPROM after
TiltCheck(e, verdict) ==
    IF verdict = 1 THEN set_high_score(e, RESET_SCORE) ELSE e

\* one pass of the while (1) loop that does not return: navigation,
\* previous_joy = joy, the tilt check, the theme check, delay32Ms(0, 50)
handle_menu_poll(acc, reading) ==
    /\ pc = "handle_menu"
    /\ MenuEvent(joy, previous_joy) # "select"
    /\ selectedIndex' =
          IF MenuEvent(joy, previous_joy) = "down" THEN MenuDown(selectedIndex)
          ELSE IF MenuEvent(joy, previous_joy) = "up" THEN MenuUp(selectedIndex)
          ELSE selectedIndex
    /\ previous_joy' = joy
    /\ tilt' = TiltSample(tilt, acc)
    /\ eeprom' = TiltCheck(eeprom, is_board_tilted(tilt'))
    /\ IF is_board_tilted(tilt') = 1
       THEN /\ written' = RESET_SCORE
            /\ readBack' = -1
       ELSE UNCHANGED storeVars
    /\ fontColor' = ThemeFont(reading)
    /\ backgroundColor' = ThemeBackground(reading)
    /\ holdFrom' =
          IF "DOWN" \in joy /\ "DOWN" \notin previous_joy THEN selectedIndex
          ELSE IF joy = previous_joy THEN holdFrom
          ELSE -1
    /\ holdPolls' =
          IF "DOWN" \in joy /\ "DOWN" \notin previous_joy THEN 1
          ELSE IF joy = previous_joy /\ holdPolls > 0
               THEN (IF holdPolls < MaxHoldPolls THEN holdPolls + 1
                     ELSE holdPolls)
          ELSE 0
    /\ accRead' = acc
    /\ tilted' = is_board_tilted(tilt')
    /\ calRead' = calRead
    /\ calibrations' = calibrations
    /\ ThemeCall(reading)
    /\ sound' = adjust_theme_tones(reading, fontColor)
    /\ UNCHANGED <<pc, joy, TC, TCR, circle, ledPos, selection, scoreShown,
                   scoreBytes, gameVars, histVars>>

\* the pass that finds the Confirm edge: return selectedIndex
handle_menu_return ==
    /\ pc = "handle_menu"
    /\ MenuEvent(joy, previous_joy) = "select"
    /\ selection' = selectedIndex
    /\ pc' = "dispatch"
    /\ NoThemeCall
    /\ NoTiltCall
    /\ sound' = <<Tone("show_main_menu", NoteA, 200)>>
    /\ UNCHANGED <<holdVars, storeVars, hwVars, themeVars, selectedIndex, previous_joy, tilt,
                   scoreShown, scoreBytes, gameVars, histVars>>

(***************************************************************************)
(* show_main_menu: switch (selection)                                      *)
(***************************************************************************)
\* sprintf(highScoreMsString, "%u ms", highScoreMs) into char[8]
ScoreTextBytes(score) == Digits(score) + 3 + 1

\* a switch whose Credits case has lost its break and runs into Exit
AfterCase_fallthrough(sel) ==
    CASE sel = MENU_START_GAME -> "start_game"
      [] sel = MENU_RESET_SCORE -> "show_main_menu"
      [] sel = SHOW_HIGH_SCORE -> "ScoreConfirm"
      [] sel = MENU_CREDITS -> "exit"
      [] sel = MENU_EXIT -> "exit"

\* switch (selection): where the program is once the case has run: in the
\* callee, at its blocking wait, back at while (1) after break, or out of
\* show_main_menu after return
AfterCase(sel) ==
    CASE sel = MENU_START_GAME -> "start_game"
      [] sel = MENU_RESET_SCORE -> "show_main_menu"
      [] sel = SHOW_HIGH_SCORE -> "ScoreConfirm"
      [] sel = MENU_CREDITS -> "show_main_menu"
      [] sel = MENU_EXIT -> "exit"

show_main_menu_start_game ==
    /\ pc = "dispatch"
    /\ selection = MENU_START_GAME
    /\ pc' = AfterCase(selection)
    /\ Quiet
    /\ UNCHANGED <<holdVars, storeVars, hwVars, themeVars, menuVars, gameVars, histVars>>

show_main_menu_reset_score ==
    /\ pc = "dispatch"
    /\ selection = MENU_RESET_SCORE
    /\ eeprom' = set_high_score(eeprom, RESET_SCORE)
    /\ pc' = AfterCase(selection)
    /\ written' = RESET_SCORE
    /\ readBack' = -1
    /\ Quiet
    /\ UNCHANGED <<holdVars, joy, TC, TCR, circle, ledPos, themeVars, menuVars, gameVars,
                   histVars>>

show_main_menu_high_score ==
    /\ pc = "dispatch"
    /\ selection = SHOW_HIGH_SCORE
    /\ scoreShown' = read_high_score(eeprom)
    /\ scoreBytes' = ScoreTextBytes(read_high_score(eeprom))
    /\ waits' = 0
    /\ pc' = AfterCase(selection)
    /\ readBack' = read_high_score(eeprom)
    /\ Quiet
    /\ UNCHANGED <<holdVars, written, hwVars, themeVars, selectedIndex, previous_joy, selection,
                   tilt, gameVars, measured, sumElapsed, minElapsed,
                   priorScore, sinceArm, heldSinceArm, phases>>

\* wait_for_joystick_center_click() returns; break
show_main_menu_high_score_done ==
    /\ pc = "ScoreConfirm"
    /\ wait_for_joystick_center_click_pressed
    /\ pc' = "show_main_menu"
    /\ Quiet
    /\ UNCHANGED <<holdVars, storeVars, hwVars, themeVars, menuVars, gameVars, histVars>>

show_main_menu_credits ==
    /\ pc = "dispatch"
    /\ selection = MENU_CREDITS
    /\ pc' = AfterCase(selection)
    /\ NoThemeCall
    /\ NoTiltCall
    /\ sound' = play_star_wars_theme
    /\ UNCHANGED <<holdVars, storeVars, hwVars, themeVars, menuVars, gameVars, histVars>>

\* "Exiting...", three notes, return
show_main_menu_exit ==
    /\ pc = "dispatch"
    /\ selection = MENU_EXIT
    /\ pc' = AfterCase(selection)
    /\ NoThemeCall
    /\ NoTiltCall
    /\ sound' = <<Tone("show_main_menu", notes[11], 200),
                  Tone("show_main_menu", notes[6], 200),
                  Tone("show_main_menu", notes[2], 200)>>
    /\ UNCHANGED <<holdVars, storeVars, hwVars, themeVars, menuVars, gameVars, histVars>>

(***************************************************************************)
(* The menu on its own: every state in which show_main_menu can call       *)
(* handle_menu.  start_game is not followed here.                          *)
(***************************************************************************)
InitMenu ==
    /\ pc = "show_main_menu"
    /\ joy \in JoyStates
    /\ eeprom \in {StoredScore(v) : v \in PriorScores}
    /\ \E reading \in LightReadings :
          /\ fontColor = ThemeFont(reading)
          /\ backgroundColor = ThemeBackground(reading)
    /\ selectedIndex \in 0 .. (MENU_ITEM_COUNT - 1)
    /\ previous_joy = ALL_PRESSED
    /\ selection = MENU_START_GAME
    /\ tilt = init_tilt_calibration(LevelReading)
    /\ scoreShown = 0
    /\ scoreBytes = 0
    /\ calRead = LevelReading
    /\ calibrations = 1
    /\ InitLocals

NextMenu ==
    \/ JoystickMove(JoyStates)
    \/ \E n \in PollCounts : wait_for_joystick_center_click_released(n)
    \/ show_main_menu_enter
    \/ \E acc \in MenuAccReadings, reading \in LightReadings :
          handle_menu_poll(acc, reading)
    \/ handle_menu_return
    \/ show_main_menu_start_game
    \/ show_main_menu_reset_score
    \/ show_main_menu_high_score
    \/ show_main_menu_high_score_done
    \/ show_main_menu_credits
    \/ show_main_menu_exit

SpecMenu == InitMenu /\ [][NextMenu]_vars

(***************************************************************************)
(* main: theme, startup animation with calibration, welcome screen, menu   *)
(***************************************************************************)
\* adjust_theme(): the first call, on the zero-initialised colours
main_adjust_theme(reading) ==
    /\ pc = "main"
    /\ fontColor' = ThemeFont(reading)
    /\ backgroundColor' = ThemeBackground(reading)
    /\ pc' = "startup"
    /\ ThemeCall(reading)
    /\ NoTiltCall
    /\ sound' = adjust_theme_tones(reading, fontColor)
    /\ UNCHANGED <<hwVars, menuVars, gameVars, histVars, holdVars, storeVars>>

\* an animation that ends without the calibration
play_startup_animation_nocal(acc) ==
    /\ pc = "startup"
    /\ pc' = "welcome"
    /\ NoThemeCall
    /\ NoTiltCall
    /\ sound' = <<Tone("play_startup_animation", notes[4], 200)>>
    /\ UNCHANGED <<hwVars, themeVars, menuVars, gameVars, histVars, holdVars,
                   storeVars>>

\* the animation, then init_tilt_calibration()
play_startup_animation(acc) ==
    /\ pc = "startup"
    /\ tilt' = init_tilt_calibration(acc)
    /\ pc' = "welcome"
    /\ NoThemeCall
    /\ accRead' = acc
    /\ calRead' = acc
    /\ calibrations' = calibrations + 1
    /\ tilted' = -1
    /\ sound' = <<Tone("play_startup_animation", notes[4], 200)>>
    /\ UNCHANGED <<hwVars, themeVars, selectedIndex, previous_joy, selection,
                   scoreShown, scoreBytes, gameVars, histVars, holdVars,
                   storeVars>>

\* "Welcome", the stored score as "%u ms" in char[8], then the wait
show_welcome_screen ==
    /\ pc = "welcome"
    /\ scoreShown' = read_high_score(eeprom)
    /\ scoreBytes' = ScoreTextBytes(read_high_score(eeprom))
    /\ readBack' = read_high_score(eeprom)
    /\ waits' = 0
    /\ pc' = "WelcomeConfirm"
    /\ Quiet
    /\ UNCHANGED <<hwVars, themeVars, selectedIndex, previous_joy, selection,
                   tilt, gameVars, measured, sumElapsed, minElapsed,
                   priorScore, sinceArm, heldSinceArm, phases, holdVars,
                   written>>

\* wait_for_joystick_center_click() returns; main calls show_main_menu
show_welcome_screen_return ==
    /\ pc = "WelcomeConfirm"
    /\ wait_for_joystick_center_click_pressed
    /\ pc' = "show_main_menu"
    /\ Quiet
    /\ UNCHANGED <<hwVars, themeVars, menuVars, gameVars, histVars, holdVars,
                   storeVars>>

(***************************************************************************)
(* The whole program from power-up.  The statics are zero-initialised; the *)
(* EEPROM holds what an earlier run left.  Sessions are followed with one  *)
(* poll count, one random value and two stored scores; SpecGame, SpecMenu  *)
(* and SpecTilt have the larger input sets.                                *)
(***************************************************************************)
\* accelerometer reading at calibration: the board resting on a slope
CalibrationReadings == {<<-20, 5, 60>>}

\* ten seconds of released polls: a wait longer than the reset value
ProgramPollCounts == {<<0, 10000>>}

ProgramScores == {0, 300}

ProgramRandValues == {2999}

Init ==
    /\ pc = "main"
    /\ joy \in JoyStates
    /\ eeprom \in {StoredScore(v) : v \in ProgramScores}
    /\ fontColor = 0
    /\ backgroundColor = 0
    /\ selectedIndex = 0
    /\ previous_joy = ALL_PRESSED
    /\ selection = MENU_START_GAME
    /\ tilt = [xOffset |-> 0, yOffset |-> 0, zOffset |-> 0,
               x |-> 0, y |-> 0, z |-> 0]
    /\ scoreShown = 0
    /\ scoreBytes = 0
    /\ calRead = NoReading
    /\ calibrations = 0
    /\ InitLocals

Next ==
    \/ JoystickMove(JoyStates)
    \/ \E n \in ProgramPollCounts : wait_for_joystick_center_click_released(n)
    \/ \E reading \in LightReadings : main_adjust_theme(reading)
    \/ \E acc \in CalibrationReadings : play_startup_animation(acc)
    \/ show_welcome_screen
    \/ show_welcome_screen_return
    \/ show_main_menu_enter
    \/ \E acc \in MenuAccReadings, reading \in LightReadings :
          handle_menu_poll(acc, reading)
    \/ handle_menu_return
    \/ show_main_menu_start_game
    \/ show_main_menu_reset_score
    \/ show_main_menu_high_score
    \/ show_main_menu_high_score_done
    \/ show_main_menu_credits
    \/ show_main_menu_exit
    \/ start_game_enter
    \/ \E reading \in LightReadings, r \in ProgramRandValues :
          start_game_wait(reading, r)
    \/ start_game_stimulus
    \/ measure_reaction_time_arm
    \/ measure_reaction_time_return
    \/ start_game_result
    \/ start_game_confirm
    \/ start_game_summary
    \/ start_game_return

Spec == Init /\ [][Next]_vars

(***************************************************************************)
(* The score store on its own: calls of set_high_score and read_high_score *)
(* in any order, for values over the whole 16-bit range.                   *)
(***************************************************************************)
ScoreValues ==
    {0, 1, 2, 127, 128, 255, 256, 257, 511, 512, 1234, 4660, RESET_SCORE,
     13330, 32767, 32768, 43981, 52651, 65024, 65279, 65280, 65281, 65534,
     65535}

\* EEPROM contents before the first write: erased, zeroed, or a score
FirstContents ==
    {[a \in EepromAddrs |-> 255], [a \in EepromAddrs |-> 0]}
    \cup {StoredScore(v) : v \in PriorScores}

store_write(v) ==
    /\ pc = "store"
    /\ eeprom' = set_high_score(eeprom, v)
    /\ written' = v
    /\ readBack' = -1
    /\ Quiet
    /\ UNCHANGED <<pc, joy, TC, TCR, circle, ledPos, themeVars, menuVars,
                   gameVars, histVars, holdVars>>

store_read ==
    /\ pc = "store"
    /\ readBack' = read_high_score(eeprom)
    /\ Quiet
    /\ UNCHANGED <<pc, hwVars, themeVars, menuVars, gameVars, histVars,
                   holdVars, written>>

InitStore ==
    /\ pc = "store"
    /\ joy = {}
    /\ eeprom \in FirstContents
    /\ fontColor = OLED_COLOR_BLACK
    /\ backgroundColor = OLED_COLOR_BLACK
    /\ selectedIndex = 0
    /\ previous_joy = ALL_PRESSED
    /\ selection = MENU_START_GAME
    /\ tilt = init_tilt_calibration(LevelReading)
    /\ scoreShown = 0
    /\ scoreBytes = 0
    /\ calRead = LevelReading
    /\ calibrations = 1
    /\ InitLocals

NextStore ==
    \/ \E v \in ScoreValues : store_write(v)
    \/ store_read

SpecStore == InitStore /\ [][NextStore]_vars

(***************************************************************************)
(* adjust_theme on its own: calls one after the other from power-up, for   *)
(* every light reading up to MaxLight.                                     *)
(***************************************************************************)
\* the largest light_read() value of the theme calls followed on their own
MaxLight == 255

adjust_theme_call(reading) ==
    /\ pc = "theme"
    /\ fontColor' = ThemeFont(reading)
    /\ backgroundColor' = ThemeBackground(reading)
    /\ ThemeCall(reading)
    /\ NoTiltCall
    /\ sound' = adjust_theme_tones(reading, fontColor)
    /\ UNCHANGED <<pc, hwVars, menuVars, gameVars, histVars, holdVars,
                   storeVars>>

\* power-up: the statics fontColor and backgroundColor are zero
InitTheme ==
    /\ pc = "theme"
    /\ joy = {}
    /\ eeprom = StoredScore(RESET_SCORE)
    /\ fontColor = 0
    /\ backgroundColor = 0
    /\ selectedIndex = 0
    /\ previous_joy = ALL_PRESSED
    /\ selection = MENU_START_GAME
    /\ tilt = [xOffset |-> 0, yOffset |-> 0, zOffset |-> 0,
               x |-> 0, y |-> 0, z |-> 0]
    /\ scoreShown = 0
    /\ scoreBytes = 0
    /\ calRead = NoReading
    /\ calibrations = 0
    /\ InitLocals

NextTheme == \E reading \in 0 .. MaxLight : adjust_theme_call(reading)

SpecTheme == InitTheme /\ [][NextTheme]_vars

(***************************************************************************)
(* The tilt monitor on its own: one calibration, then polls, for readings  *)
(* over the whole int8_t range of each axis.                               *)
(***************************************************************************)
XReadings == {-128, -100, -31, -30, 0, 30, 31, 100, 127}

YReadings == {-128, -31, 0, 31, 127}

ZReadings == {-128, 0, 64}

AccReadings == XReadings \X YReadings \X ZReadings

\* static TiltState tilt: zero before the calibration
TiltAtPowerUp ==
    [xOffset |-> 0, yOffset |-> 0, zOffset |-> 0, x |-> 0, y |-> 0, z |-> 0]

init_tilt_calibration_call(r) ==
    /\ pc = "tilt"
    /\ calRead = NoReading
    /\ tilt' = init_tilt_calibration(r)
    /\ accRead' = r
    /\ calRead' = r
    /\ calibrations' = calibrations + 1
    /\ tilted' = -1
    /\ NoThemeCall
    /\ sound' = <<>>
    /\ UNCHANGED <<pc, hwVars, themeVars, selectedIndex, previous_joy,
                   selection, scoreShown, scoreBytes, gameVars, histVars,
                   holdVars, storeVars>>

is_board_tilted_call(r) ==
    /\ pc = "tilt"
    /\ calRead # NoReading
    /\ tilt' = TiltSample(tilt, r)
    /\ accRead' = r
    /\ calRead' = calRead
    /\ calibrations' = calibrations
    /\ tilted' = is_board_tilted(tilt')
    /\ NoThemeCall
    /\ sound' = <<>>
    /\ UNCHANGED <<pc, hwVars, themeVars, selectedIndex, previous_joy,
                   selection, scoreShown, scoreBytes, gameVars, histVars,
                   holdVars, storeVars>>

InitTilt ==
    /\ pc = "tilt"
    /\ joy = {}
    /\ eeprom = StoredScore(RESET_SCORE)
    /\ fontColor = OLED_COLOR_BLACK
    /\ backgroundColor = OLED_COLOR_WHITE
    /\ selectedIndex = 0
    /\ previous_joy = ALL_PRESSED
    /\ selection = MENU_START_GAME
    /\ tilt = TiltAtPowerUp
    /\ scoreShown = 0
    /\ scoreBytes = 0
    /\ calRead = NoReading
    /\ calibrations = 0
    /\ InitLocals

NextTilt ==
    \/ \E r \in AccReadings : init_tilt_calibration_call(r)
    \/ \E r \in AccReadings : is_board_tilted_call(r)

SpecTilt == InitTilt /\ [][NextTilt]_vars

(***************************************************************************)
(* play_note on its own: single calls, for every period of the table and   *)
(* for silence, with the durations the program uses.                       *)
(***************************************************************************)
NotePeriods == {notes[i] : i \in DOMAIN notes} \cup {0}

NoteDurations == {100, 150, 200, 250, 350, 400, 500, 1000}

play_note_call(note, durationMs) ==
    /\ pc = "note"
    /\ sound' = <<Tone("caller", note, durationMs)>>
    /\ NoThemeCall
    /\ NoTiltCall
    /\ UNCHANGED <<pc, hwVars, themeVars, menuVars, gameVars, histVars,
                   holdVars, storeVars>>

InitNote ==
    /\ pc = "note"
    /\ joy = {}
    /\ eeprom = StoredScore(RESET_SCORE)
    /\ fontColor = OLED_COLOR_BLACK
    /\ backgroundColor = OLED_COLOR_WHITE
    /\ selectedIndex = 0
    /\ previous_joy = ALL_PRESSED
    /\ selection = MENU_START_GAME
    /\ tilt = init_tilt_calibration(LevelReading)
    /\ scoreShown = 0
    /\ scoreBytes = 0
    /\ calRead = LevelReading
    /\ calibrations = 1
    /\ InitLocals

NextNote ==
    \E note \in NotePeriods, durationMs \in NoteDurations :
        play_note_call(note, durationMs)

SpecNote == InitNote /\ [][NextNote]_vars

(***************************************************************************)
(* The two screens that show the stored score, on their own: the welcome   *)
(* screen as main calls it and the ShowHighScore case as show_main_menu    *)
(* dispatches it, for any contents of the EEPROM.                          *)
(***************************************************************************)
\* where the program is when one of the two screens is about to be drawn
ScreenCalls ==
    {[at |-> "welcome", sel |-> MENU_START_GAME],
     [at |-> "dispatch", sel |-> SHOW_HIGH_SCORE]}

InitScreen ==
    /\ \E c \in ScreenCalls :
          /\ pc = c.at
          /\ selection = c.sel
          /\ selectedIndex = c.sel
    /\ joy \in JoyStates
    /\ eeprom \in FirstContents \cup {StoredScore(v) : v \in ScoreValues}
    /\ \E reading \in LightReadings :
          /\ fontColor = ThemeFont(reading)
          /\ backgroundColor = ThemeBackground(reading)
    /\ previous_joy = ALL_PRESSED
    /\ tilt = init_tilt_calibration(LevelReading)
    /\ scoreShown = 0
    /\ scoreBytes = 0
    /\ calRead = LevelReading
    /\ calibrations = 1
    /\ InitLocals

NextScreen ==
    \/ JoystickMove(JoyStates)
    \/ \E n \in PollCounts : wait_for_joystick_center_click_released(n)
    \/ show_welcome_screen
    \/ show_welcome_screen_return
    \/ show_main_menu_high_score
    \/ show_main_menu_high_score_done

SpecScreen == InitScreen /\ [][NextScreen]_vars

MenuPass == pc = "handle_menu" /\ joy' = joy

PressedNow(button) == (button \in joy) /\ (button \notin previous_joy)

\* C5: selectedIndex stays in 0..4; a Down press at 4 yields 0 and otherwise
\* adds 1; an Up press at 0 yields 4 and otherwise subtracts 1.
C5_IndexWraps ==
    [][/\ selectedIndex' \in 0 .. 4
       /\ (MenuPass /\ PressedNow("DOWN")) =>
             (selectedIndex' = IF selectedIndex = 4 THEN 0
                               ELSE selectedIndex + 1)
       /\ (MenuPass /\ PressedNow("UP") /\ ~ PressedNow("DOWN")) =>
             (selectedIndex' = IF selectedIndex = 0 THEN 4
                               ELSE selectedIndex - 1)]_vars

\* Down was pressed at index 4 and the index is 0
C5_Witness ==
    pc = "handle_menu" /\ holdFrom = 4 /\ holdPolls = 1 /\ selectedIndex = 0

\* C6: from the poll that reads Down newly pressed, and for as long as the
\* following polls read the same raw bits, selectedIndex is one step after
\* the index before the press: it changed on the first poll and only there.
C6_HeldDownFiresOnce ==
    (pc = "handle_menu" /\ holdPolls >= 1) =>
        (selectedIndex = (holdFrom + 1) % 5)

\* Down has been read held, unchanged, on three polls
C6_Witness ==
    /\ pc = "handle_menu"
    /\ holdPolls = 3
    /\ "DOWN" \in previous_joy
    /\ selectedIndex = (holdFrom + 1) % 5

\* C7 as stated: on every poll that reads Confirm newly pressed, whatever
\* the other bits, the loop ends and returns the action at selectedIndex.
C7_ConfirmEndsLoop_AnyBits ==
    [][(MenuPass /\ PressedNow("CENTER")) =>
          (pc' = "dispatch" /\ selection' = selectedIndex)]_vars

\* C7 amended: on every poll that reads Confirm newly pressed and neither
\* Down nor Up newly pressed, the loop ends on that poll and returns the
\* action at the current selectedIndex.
C7_ConfirmEndsLoop ==
    [][(MenuPass /\ PressedNow("CENTER")
        /\ ~ PressedNow("DOWN") /\ ~ PressedNow("UP")) =>
          (/\ pc' = "dispatch"
           /\ selection' = selectedIndex
           /\ selectedIndex' = selectedIndex)]_vars

\* handle_menu returned the third action on a Confirm press with Up held
C7_Witness ==
    /\ pc = "dispatch"
    /\ selection = 2
    /\ selectedIndex = 2
    /\ joy = {"CENTER", "UP"}
    /\ previous_joy = {"UP"}

C20_ChecksOnEveryPass ==
    [][MenuPass => (tilted' # -1 /\ themeResult' # -1)]_vars

(***************************************************************************)
(* Properties of a game session                                            *)
(***************************************************************************)
\* the session has drawn its Summary screen
AtSummary == pc \in {"SummaryConfirm", "show_main_menu"}

\* C1: a round is declared a new record (the "NEW RECORD!" banner) if and
\* only if the measured time T is below the stored high score H, or H is 0;
\* T is the time waited since arming, H the score in the EEPROM at the result.
C1_NewRecordRule ==
    [][(pc = "Result" /\ pc' = "RoundConfirm") =>
          (banner' <=>
              (\/ WLess(ToUint32(sinceArm), Wide(read_high_score(eeprom)))
               \/ read_high_score(eeprom) = 0))]_vars

\* a round with H = 300 and T = 250 was declared a record
C1_Witness ==
    /\ pc = "RoundConfirm"
    /\ measured = 1
    /\ priorScore = 300
    /\ reactionTimeMs = Wide(250)
    /\ banner

GameOrder ==
    {<<"start_game", "Wait">>, <<"Wait", "Stimulus">>, <<"Stimulus", "Arm">>,
     <<"Arm", "Measuring">>, <<"Measuring", "Result">>,
     <<"Result", "RoundConfirm">>, <<"RoundConfirm", "Wait">>,
     <<"RoundConfirm", "Summary">>, <<"Summary", "SummaryConfirm">>,
     <<"SummaryConfirm", "show_main_menu">>}

\* C2: a session runs exactly 5 rounds one after the other, each through
\* Wait, Stimulus, Measuring, Result in that order, the timer being armed
\* only with the circle filled; the Summary is drawn once, after the fifth
\* Result and no earlier.
C2_FiveRoundsInOrder ==
    [][/\ (pc' # pc) => (<<pc, pc'>> \in GameOrder)
       /\ (pc' = "Wait") => (round' < 5 /\ measured' = round')
       /\ (pc = "Arm" /\ pc' = "Measuring") => (circle = "filled")
       /\ (pc' = "Result") => (measured' = round' + 1)
       /\ (pc' = "Summary") => (round' = 5 /\ measured' = 5 /\ phases' = 0)
       /\ (pc' \in {"SummaryConfirm", "show_main_menu"}) =>
             (round' = 5 /\ measured' = 5 /\ phases' = 1)]_vars

\* the session is over: five measurements, one Summary
C2_Witness == pc = "show_main_menu" /\ measured = 5 /\ round = 5 /\ phases = 1

\* C3: if Confirm is pressed when the timer is armed and stays pressed,
\* measure_reaction_time does not return (before a release and a new press).
C3_HeldButtonDoesNotFire == (pc = "Result") => ~ heldSinceArm

\* C4: measure_reaction_time resets the counter to zero and starts it before
\* it waits, returns the counter value read at the Confirm press, that value
\* is the time waited since this round's arming (as a uint32_t) whatever the
\* earlier rounds were, and it is the value the record comparison uses.
C4_ElapsedSinceArming ==
    [][/\ (pc = "Arm" /\ pc' = "Measuring") => (TC' = Wide(0) /\ TCR' = 1)
       /\ (pc' = "Result") => (reactionTimeMs' = ToUint32(sinceArm'))
       /\ (pc = "Result" /\ pc' = "RoundConfirm") =>
             (banner' <=>
                 (\/ WLess(ToUint32(sinceArm), Wide(highScoreMs))
                  \/ highScoreMs = 0))]_vars

\* the second round returned 250 ms after a first round of 2^32 - 250 ms
C4_Witness ==
    /\ pc = "Result"
    /\ measured = 2
    /\ reactionTimeMs = Wide(250)
    /\ sumElapsed = <<65536, 0>>

\* C8 as stated: for every prior score H and every five elapsed times, the
\* best time of the Summary is the minimum of H and the five times.
C8_BestIsMinimum_AnyScore ==
    AtSummary => (Wide(bestShown) = WMin(Wide(priorScore), minElapsed))

\* C8 amended: for every prior score H other than 0 and every five elapsed
\* times none of which is 0, the best time of the Summary (the stored score
\* at the end of the session) is the minimum of H and the five times.
C8_BestIsMinimum ==
    (AtSummary /\ priorScore # 0 /\ minElapsed # Wide(0)) =>
        (/\ Wide(bestShown) = WMin(Wide(priorScore), minElapsed)
         /\ bestShown = read_high_score(eeprom))

\* a session that started at 300 and whose fastest round took 250 ms
C8_Witness ==
    /\ pc = "show_main_menu"
    /\ priorScore = 300
    /\ minElapsed = Wide(250)
    /\ bestShown = 250

\* C9: totalTime starts at 0, after round k it is the sum of the first k
\* elapsed times, and the average of the Summary is the sum of the five
\* elapsed times divided by 5 (integer division).
C9_AverageIsMean ==
    /\ (pc = "Wait" /\ round = 0) => (totalTime = Wide(0))
    /\ (pc \in {"Wait", "RoundConfirm", "Summary"}) => (totalTime = sumElapsed)
    /\ AtSummary => (avgShown = WDiv(sumElapsed, 5))

(***************************************************************************)
(* Properties of the whole program                                         *)
(***************************************************************************)
\* C11: after a high-score reset (ResetScore or a tilt in the menu) has
\* written 9999, the first round of the next game session is declared a new
\* record, whatever the measured time.  In Spec a session measures 0 or
\* 10000 ms, so a stored write of 9999 is the write of a reset.
C11_RecordAfterReset ==
    [][(/\ pc = "Result"
        /\ pc' = "RoundConfirm"
        /\ round = 0
        /\ written = RESET_SCORE
        /\ read_high_score(eeprom) = RESET_SCORE) => banner']_vars

\* the order of the positions outside a game session
ProgramOrder ==
    {<<"main", "startup">>, <<"startup", "welcome">>,
     <<"welcome", "WelcomeConfirm">>, <<"WelcomeConfirm", "show_main_menu">>,
     <<"show_main_menu", "handle_menu">>, <<"handle_menu", "dispatch">>,
     <<"dispatch", "start_game">>, <<"dispatch", "show_main_menu">>,
     <<"dispatch", "ScoreConfirm">>, <<"dispatch", "exit">>,
     <<"ScoreConfirm", "show_main_menu">>}

\* C18: the theme is initialised, then the startup animation calibrates the
\* tilt monitor, then the welcome screen waits for Confirm, then the menu
\* dispatch loop runs; the loop is left, and the program ends, if and only
\* if Exit was confirmed; after StartGame, ResetScore, ShowHighScore and
\* Credits control is back at the menu.
C18_TopLevelOrder ==
    [][/\ (pc' # pc) => (<<pc, pc'>> \in ProgramOrder \cup GameOrder)
       /\ (pc = "main" /\ pc' = "startup") => (themeResult' # -1)
       /\ (pc = "startup" /\ pc' = "welcome") =>
             (calRead' # NoReading /\ tilt' = init_tilt_calibration(calRead'))
       /\ (pc = "WelcomeConfirm" /\ pc' = "show_main_menu") =>
             ("CENTER" \in joy)
       /\ (pc = "dispatch" /\ pc' # pc) =>
             (/\ (pc' = "exit") <=> (selection = 4)
              /\ (selection \in {1, 3}) => (pc' = "show_main_menu")
              /\ (selection = 0) => (pc' = "start_game")
              /\ (selection = 2) => (pc' = "ScoreConfirm"))
       /\ (pc = "exit") => (pc' = "exit")]_vars

\* Exit was confirmed after a reset: the program has ended
C18_Witness ==
    /\ pc = "exit"
    /\ selection = MENU_EXIT
    /\ written = RESET_SCORE
    /\ calRead # NoReading

(***************************************************************************)
(* Properties of adjust_theme                                              *)
(***************************************************************************)
\* the palette in effect: foreground and background
Palette == <<fontColor, backgroundColor>>

\* C12: every call of adjust_theme, the first after power-up included,
\* returns true if and only if the palette after the call differs from the
\* palette before it; and from one call to the next it returns true exactly
\* when the two readings are on different sides of 125.
C12_TrueIffPaletteChanged ==
    [][(themeResult' # -1) =>
          (/\ (themeResult' = 1) <=> (Palette' # Palette)
           /\ (lightRead # -1) =>
                 ((themeResult' = 1) <=>
                     ((lightRead < 125) # (lightRead' < 125))))]_vars

\* C13: after adjust_theme has read r, the theme is night (white on black)
\* when r < 125 and day (black on white) when r >= 125.
C13_NightBelow125 ==
    (lightRead # -1) =>
        (/\ (lightRead < 125) =>
               (fontColor = OLED_COLOR_WHITE
                /\ backgroundColor = OLED_COLOR_BLACK)
         /\ (lightRead >= 125) =>
               (fontColor = OLED_COLOR_BLACK
                /\ backgroundColor = OLED_COLOR_WHITE))

\* a reading of exactly 125 has selected day
C13_Witness ==
    /\ pc = "theme"
    /\ lightRead = 125
    /\ fontColor = OLED_COLOR_BLACK
    /\ backgroundColor = OLED_COLOR_WHITE

(***************************************************************************)
(* Properties of the tilt monitor                                          *)
(***************************************************************************)
Abs(v) == IF v < 0 THEN 0 - v ELSE v

\* C14 as stated: after the calibration, is_board_tilted returns false when
\* the sensor reads the reference again, and true whenever the adjusted
\* reading of X, Y or Z is above 30 in magnitude.
C14_TiltedOnAnyAxis ==
    (tilted # -1) =>
        (/\ (accRead = calRead) => (tilted = 0)
         /\ (Abs(tilt.x) > 30 \/ Abs(tilt.y) > 30 \/ Abs(tilt.z) > 30) =>
               (tilted = 1))

\* C14 amended: after the calibration, is_board_tilted returns false when
\* the sensor reads the reference again, and true whenever the adjusted
\* reading it has stored for X or for Y is above 30 in magnitude; the Z
\* axis does not count.
C14_TiltedOnXOrY ==
    (tilted # -1) =>
        (/\ (accRead = calRead) => (tilted = 0)
         /\ (Abs(tilt.x) > 30 \/ Abs(tilt.y) > 30) => (tilted = 1))

\* calibrated on a slope, and then tilted by 31 on Y alone
C14_Witness ==
    /\ pc = "tilt"
    /\ calRead = <<30, -31, 0>>
    /\ accRead = <<30, 0, 0>>
    /\ tilt.x = 0
    /\ tilt.y = 31
    /\ tilted = 1

\* C15: for every calibration reading (x0, y0) and every reading (x, y),
\* is_board_tilted returns true if and only if |x - x0| > 30 or
\* |y - y0| > 30, the differences being the integer differences.
C15_TrueDifference ==
    (tilted # -1) =>
        ((tilted = 1) <=>
            (\/ Abs(accRead[1] - calRead[1]) > 30
             \/ Abs(accRead[2] - calRead[2]) > 30))

(***************************************************************************)
(* Properties of play_note                                                 *)
(***************************************************************************)
\* C16: a call play_note(period, durationMs) keeps the caller for exactly
\* durationMs: the delays it executes add up to durationMs * 1000
\* microseconds, with two pin writes per pass of period / 4 microseconds
\* each for a non-zero period, and no pin write for period 0.
C16_BlocksForDuration ==
    \A i \in DOMAIN sound :
        /\ sound[i].delayUs = sound[i].durationMs * 1000
        /\ (sound[i].note = 0) => (sound[i].toggles = 0)
        /\ (sound[i].note > 0) =>
              (sound[i].delayUs = sound[i].toggles * (sound[i].note \div 4))

(***************************************************************************)
(* Properties of the pre-stimulus delay                                    *)
(***************************************************************************)
\* rand() values over two whole cycles of rand() % 3000
RandDomain == 0 .. ((2 * RAND_SPAN) - 1)

\* delays at both ends of the range the claim names, and one inside
DelaySamples == {500, 501, 2000, 3499, 3500}

\* C17: the delay of every round is a whole number of milliseconds in
\* 500..3500, and every value of that range, 3500 included, is a delay the
\* round can take.
C17_DelayRange ==
    /\ (pc = "Stimulus") => (randomDelay \in 500 .. 3500)
    /\ (pc = "Wait" /\ round < 5) =>
          (\A d \in DelaySamples :
              ENABLED (/\ \E reading \in LightReadings, r \in RandDomain :
                             start_game_wait(reading, r)
                       /\ randomDelay' = d))

(***************************************************************************)
(* Properties of the Result step of a round                                *)
(***************************************************************************)
\* the step of a round that shows the result and decides on the record
ResultStep == pc = "Result" /\ pc' = "RoundConfirm"

\* C21: after a round declared a new record, the high score read back from
\* the store equals the elapsed time that round measured.
C21_RecordStoresElapsed ==
    [][(ResultStep /\ banner') =>
          (Wide(read_high_score(eeprom')) = reactionTimeMs)]_vars

\* C25: after the Result step the text "<elapsed> ms" with its terminator
\* fits in the five bytes it was formatted into, and the LED position set
\* in the round is in 0..4.
C25_ResultFitsBuffer ==
    (pc = "RoundConfirm") =>
        (strBytes <= RESULT_BUF_SIZE /\ ledPos \in 0 .. 4)

\* C26: the three notes of the new-record fanfare are played with strictly
\* decreasing periods, that is in ascending pitch.
C26_FanfareAscending ==
    [][(ResultStep /\ banner') =>
          (/\ Len(sound') = 3
           /\ sound'[1].note > sound'[2].note
           /\ sound'[2].note > sound'[3].note)]_vars

(***************************************************************************)
(* Properties of the theme in every state                                  *)
(***************************************************************************)
\* C22: in every state, from power-up on, the font colour differs from the
\* background colour and the two colours are the day or the night palette.
C22_ThemeAlwaysPalette ==
    /\ fontColor # backgroundColor
    /\ <<fontColor, backgroundColor>> \in
           {<<OLED_COLOR_BLACK, OLED_COLOR_WHITE>>,
            <<OLED_COLOR_WHITE, OLED_COLOR_BLACK>>}

\* C23: no tone is played by adjust_theme, whether the palette changed or
\* not.
C23_ThemeSilent ==
    \A i \in DOMAIN sound : sound[i].by # "adjust_theme"

(***************************************************************************)
(* Properties of the wait for the reaction                                 *)
(***************************************************************************)
\* C24: once the counter is armed, the round leaves the wait of
\* measure_reaction_time only by a step that reads Confirm pressed, and that
\* step goes on to the result; with Up, Down or nothing pressed, and however
\* long the wait has lasted, the round stays in the wait.
C24_MeasuringLeftByConfirmOnly ==
    [][(pc = "Measuring" /\ pc' # "Measuring") =>
          ("CENTER" \in joy /\ pc' = "Result")]_vars

\* the wait has lasted with Up and Down pressed and the round is still in it
C24_Witness ==
    /\ pc = "Measuring"
    /\ joy = {"UP", "DOWN"}
    /\ sinceArm = <<0, 10000>>

(***************************************************************************)
(* The Z axis and the verdict of is_board_tilted                           *)
(***************************************************************************)
\* every value an int8_t axis can read
Int8Range == -128 .. 127

\* Z readings at calibration: both ends, below zero, and the level value
ZAtCalibration == {-128, -1, 64, 127}

\* the verdict of is_board_tilted for the X and Y of the calibration
\* reading cal and of the polled reading acc, with the Z readings z0 and z
\* in their place
VerdictWithZ(cal, acc, z0, z) ==
    is_board_tilted(TiltSample(init_tilt_calibration(<<cal[1], cal[2], z0>>),
                               <<acc[1], acc[2], z>>))

\* C27: the verdict of is_board_tilted is the same for every Z reading and
\* every Z offset, the X and Y readings and offsets being fixed.
C27_VerdictIgnoresZ ==
    (tilted # -1) =>
        (\A z0 \in ZAtCalibration, z \in Int8Range :
            VerdictWithZ(calRead, accRead, z0, z) = tilted)

\* a poll of a board level on X and Y and turned over on Z: not tilted
C27_Witness ==
    /\ tilted = 0
    /\ calRead = <<0, 0, 64>>
    /\ accRead = <<0, 0, -128>>
    /\ tilt.z = -128

(***************************************************************************)
(* Properties of the tilt calibration in the whole program                 *)
(***************************************************************************)
\* the steps of main before play_startup_animation has returned
BeforeCalibration == {"main", "startup"}

\* C28: init_tilt_calibration is called once in a run: never a second time,
\* by the end of play_startup_animation, and before every call of
\* is_board_tilted.
C28_CalibratedOnce ==
    [][/\ calibrations' <= 1
       /\ (calibrations' # calibrations) => (pc = "startup")
       /\ (pc' \notin BeforeCalibration) => (calibrations' = 1)
       /\ (tilted' # -1) => (calibrations = 1)]_vars

\* a tilt poll of the menu, after the one calibration of the start-up
C28_Witness ==
    /\ pc = "handle_menu"
    /\ tilted = 1
    /\ calibrations = 1
    /\ calRead = <<-20, 5, 60>>

\* the calibration offsets of the struct t
Offsets(t) == <<t.xOffset, t.yOffset, t.zOffset>>

\* C29: once calibrated, no step of the program changes the calibration
\* offsets: tilt polls, menu actions and game sessions leave them as
\* init_tilt_calibration set them.
C29_OffsetsKept ==
    [][(calibrations = 1) =>
          (/\ Offsets(tilt') = Offsets(tilt)
           /\ Offsets(tilt') = Offsets(init_tilt_calibration(calRead')))]_vars

\* in a round of a game session, after a menu poll that read a tilt on X,
\* the offsets are those of the calibration
C29_Witness ==
    /\ pc = "RoundConfirm"
    /\ tilt.x = 51
    /\ Offsets(tilt) = <<20, -5, 4>>

(***************************************************************************)
(* Where the stored high score is written                                  *)
(***************************************************************************)
\* the Result step of a round that is declared a record
RecordStep == pc = "Result" /\ banner'

\* the ResetScore case of the menu dispatch
ResetStep == pc = "dispatch" /\ selection = MENU_RESET_SCORE

\* a pass of handle_menu whose tilt check reports a tilt
TiltResetStep == pc = "handle_menu" /\ pc' = "handle_menu" /\ tilted' = 1

\* C30: the stored high score changes only in a round declared a record, in
\* the ResetScore menu action and in a menu pass that detects a tilt, and
\* then to what set_high_score writes; every other step leaves it unchanged.
C30_ScoreWrittenAtThreePlaces ==
    [][(eeprom' # eeprom) =>
          (/\ RecordStep \/ ResetStep \/ TiltResetStep
           /\ written' \in 0 .. 65535
           /\ eeprom' = set_high_score(eeprom, written'))]_vars

\* a record stored in a session that began with the reset score
C30_Witness ==
    /\ pc = "RoundConfirm"
    /\ banner
    /\ priorScore = RESET_SCORE
    /\ read_high_score(eeprom) # RESET_SCORE

(***************************************************************************)
(* Properties of selectedIndex in the whole program                        *)
(***************************************************************************)
\* show_main_menu calls handle_menu: the polling loop is entered
MenuEntry == pc = "show_main_menu" /\ pc' = "handle_menu"

\* C31 (as stated): at every entry of the polling loop, the first and the
\* entries after a dispatched action, selectedIndex is 0.
C31_IndexZeroAtEveryEntry ==
    [][MenuEntry => (selectedIndex' = 0)]_vars

\* C31 (amended): the entry of the polling loop leaves selectedIndex as it
\* is: 0 at the first entry, after the welcome screen, and the index of the
\* action just dispatched at every later entry.
C31_IndexKeptAtEntry ==
    [][/\ MenuEntry => (selectedIndex' = selectedIndex)
       /\ (pc = "WelcomeConfirm" /\ pc' = "show_main_menu") =>
             (selectedIndex' = 0)
       /\ (pc # "WelcomeConfirm" /\ pc # "show_main_menu"
           /\ pc' = "show_main_menu") => (selectedIndex' = selection)]_vars

\* the polling loop entered again after the ResetScore action, on item 1
C31_Witness ==
    /\ pc = "handle_menu"
    /\ previous_joy = ALL_PRESSED
    /\ selection = MENU_RESET_SCORE
    /\ selectedIndex = MENU_RESET_SCORE
    /\ written = RESET_SCORE
    /\ accRead = NoReading

\* C32: selectedIndex changes only in a pass of handle_menu that finds a
\* Down or an Up edge, and then by one step down or up; game sessions, the
\* menu actions, tilt resets and theme updates leave it unchanged.
C32_IndexChangedByNavigationOnly ==
    [][(selectedIndex' # selectedIndex) =>
          (/\ pc = "handle_menu"
           /\ pc' = "handle_menu"
           /\ \/ /\ MenuEvent(joy, previous_joy) = "down"
                 /\ selectedIndex' = MenuDown(selectedIndex)
              \/ /\ MenuEvent(joy, previous_joy) = "up"
                 /\ selectedIndex' = MenuUp(selectedIndex))]_vars

\* a game session of five rounds has returned to show_main_menu, and the
\* selection is still on the item that started it
C32_Witness ==
    /\ pc = "show_main_menu"
    /\ measured = ROUNDS
    /\ selection = MENU_START_GAME
    /\ selectedIndex = MENU_START_GAME

(***************************************************************************)
(* Termination of a game session                                           *)
(***************************************************************************)
\* at every wait for Confirm of the session the user presses Confirm again
\* and again for as long as the wait lasts
UserConfirms == []<>((pc \in GameWaitPcs) => ("CENTER" \in joy))

\* start_game has returned to show_main_menu after the Summary screen, with
\* five measurements taken
SessionDone ==
    /\ pc = "show_main_menu"
    /\ phases = 1
    /\ measured = ROUNDS
    /\ round = ROUNDS

\* C33: if the user presses Confirm at every wait for it, a session that
\* has started reaches the Summary screen and returns to the menu with
\* exactly five measurements taken; no pause and no tone holds it up.
C33_SessionTerminates == UserConfirms => <>SessionDone

\* the session has returned to the menu after five measurements
C33_Witness == SessionDone /\ "CENTER" \in joy

(***************************************************************************)
(* The byte order of the score store                                       *)
(***************************************************************************)
\* C34: set_high_score leaves the high 8 bits of the value in the first
\* stored byte and the low 8 bits in the second, and read_high_score returns
\* b0 * 256 + b1 for the two stored bytes b0, b1, whatever they are, storage
\* that was never written included.
C34_BigEndianStore ==
    /\ (written # -1) =>
          (/\ eeprom[SCORE_ADDR_WRITE] = written \div 256
           /\ eeprom[SCORE_ADDR_WRITE + 1] = written % 256)
    /\ (readBack # -1) =>
          (readBack = (eeprom[SCORE_ADDR_READ] * 256)
                         + eeprom[SCORE_ADDR_READ + 1])

\* 0x1234 is stored as the bytes 0x12, 0x34 and read back
C34_Witness ==
    /\ written = 4660
    /\ eeprom[SCORE_ADDR_WRITE] = 18
    /\ eeprom[SCORE_ADDR_WRITE + 1] = 52
    /\ readBack = 4660

\* erased storage, never written, has been read as 65535
C34_ErasedRead == written = -1 /\ readBack = 65535

(***************************************************************************)
(* The buffer of the displayed high score                                  *)
(***************************************************************************)
\* C35: whatever 16-bit value is stored, the text "<score> ms" with its
\* terminator fits in the eight bytes of highScoreMsString, on the welcome
\* screen and in the ShowHighScore action.
C35_ScoreFitsBuffer ==
    (pc \in {"WelcomeConfirm", "ScoreConfirm"}) =>
        (scoreBytes <= SCORE_BUF_SIZE)

(***************************************************************************)
(* The stored score over the rounds of a session                           *)
(***************************************************************************)
\* the session started from a non-zero stored score and no round so far
\* measured 0 ms
NonZeroSession ==
    /\ priorScore # 0
    /\ (measured > 0) => WLess(Wide(0), minElapsed)

\* the rounds are over: the Summary and the return to the menu
SessionEndPcs == {"Summary", "SummaryConfirm", "show_main_menu"}

\* C36: in a session that starts from a non-zero stored score and whose
\* elapsed times are all at least 1 ms (those of 1..65535 in particular),
\* no step raises the stored score, and at the end of the session it is the
\* minimum of the score stored before and the five elapsed times.
C36_ScoreIsMinimum ==
    [][NonZeroSession' =>
          (/\ read_high_score(eeprom') <= read_high_score(eeprom)
           /\ (pc' \in SessionEndPcs /\ measured' = ROUNDS) =>
                 (Wide(read_high_score(eeprom'))
                     = WMin(Wide(priorScore'), minElapsed')))]_vars

\* a session that started from 300 and measured 100 ms in one of its rounds,
\* 250 ms in another and 400 ms in the other three, has stored 100
C36_Witness ==
    /\ pc = "SummaryConfirm"
    /\ priorScore = 300
    /\ measured = ROUNDS
    /\ minElapsed = Wide(100)
    /\ sumElapsed = Wide(1550)
    /\ read_high_score(eeprom) = 100

\* C37: at the start of every round and at the Summary step the local
\* highScoreMs of start_game equals the stored high score, and the best
\* score the Summary shows is that value.
C37_LocalCopyIsStored ==
    /\ (pc \in {"Wait", "Summary"}) =>
          (highScoreMs = read_high_score(eeprom))
    /\ (pc = "SummaryConfirm") =>
          (bestShown = highScoreMs /\ bestShown = read_high_score(eeprom))

\* the second round starts after a record of 250 ms against a stored 300
C37_Witness ==
    /\ pc = "Wait"
    /\ round = 1
    /\ banner
    /\ priorScore = 300
    /\ highScoreMs = 250
    /\ read_high_score(eeprom) = 250

(***************************************************************************)
(* Properties of the edge detection of handle_menu                         *)
(***************************************************************************)
\* the first pass of the loop after handle_menu was entered: no tilt check
\* has run since the entry
FirstPass == MenuPass /\ tilted = -1

\* C38: handle_menu starts with every bit of previous_joy set, so its first
\* pass performs no action whatever the joystick reads; an action is
\* performed only for a button that the previous pass read released, so a
\* button held since the entry does nothing until it was read released.
C38_FirstPollIdle ==
    [][/\ MenuEntry => (previous_joy' = Buttons)
       /\ FirstPass =>
             (/\ pc' = "handle_menu"
              /\ selectedIndex' = selectedIndex
              /\ previous_joy' = joy)
       /\ (MenuPass /\ selectedIndex' # selectedIndex) =>
             (PressedNow("DOWN") \/ PressedNow("UP"))
       /\ (MenuPass /\ pc' # "handle_menu") => PressedNow("CENTER")]_vars

\* Confirm, held since the entry, has been polled and the loop goes on
C38_Witness ==
    /\ pc = "handle_menu"
    /\ tilted # -1
    /\ joy = {"CENTER"}
    /\ previous_joy = {"CENTER"}

\* C39: a pass of handle_menu performs the Down action if Down is newly
\* pressed, else the Up action if Up is newly pressed, else the Confirm
\* action if Confirm is newly pressed, and never two of them; a pass that
\* does not return records the bits it read, so that a bit that lost to a
\* higher priority performs nothing on later passes while it stays held.
C39_OneActionByPriority ==
    [][MenuPass =>
          (/\ PressedNow("DOWN") =>
                 (/\ selectedIndex' = MenuDown(selectedIndex)
                  /\ pc' = "handle_menu")
           /\ (~ PressedNow("DOWN") /\ PressedNow("UP")) =>
                 (/\ selectedIndex' = MenuUp(selectedIndex)
                  /\ pc' = "handle_menu")
           /\ (~ PressedNow("DOWN") /\ ~ PressedNow("UP")) =>
                 (/\ selectedIndex' = selectedIndex
                  /\ (pc' = "dispatch") <=> PressedNow("CENTER"))
           /\ (pc' = "handle_menu") => (previous_joy' = joy)
           /\ (joy = previous_joy) =>
                 (selectedIndex' = selectedIndex /\ pc' = "handle_menu"))]_vars

\* Down, Up and Confirm read pressed on two passes in a row: one step down
\* was taken, and neither Up nor Confirm followed
C39_Witness ==
    /\ pc = "handle_menu"
    /\ holdPolls = 2
    /\ joy = Buttons
    /\ previous_joy = Buttons
    /\ selectedIndex = MenuDown(holdFrom)

====
